---- MODULE Spec2Model ----
(***************************************************************************)
(* Model of the crc-rocksoft crate: the ValueType register abstraction,    *)
(* the table-carrying parameter set CrcTable<T> and the incremental hasher *)
(* CrcTableHasher<T, S>.                                                   *)
(*                                                                         *)
(* A register of type T (u8, u16, u32, u64) is a sequence of W bits, least *)
(* significant first: v[i + 1] is bit i.  Nothing is held in a TLC integer *)
(* wider than a byte, so no machine arithmetic of the checker leaks in.    *)
(***************************************************************************)
EXTENDS Integers, Sequences, FiniteSets

VARIABLES overflow_checks, W, args, specs, hashers, fed, hist, ret, panicked

vars == <<overflow_checks, W, args, specs, hashers, fed, hist, ret, panicked>>

-----------------------------------------------------------------------------
(* Bit vectors.                                                            *)

Pow2(n) == IF n = 0 THEN 1 ELSE IF n = 1 THEN 2 ELSE IF n = 2 THEN 4
           ELSE IF n = 3 THEN 8 ELSE IF n = 4 THEN 16 ELSE IF n = 5 THEN 32
           ELSE IF n = 6 THEN 64 ELSE 128

\* The i-th bit (from 0) of a byte n in 0..255.
BitOf(n, i) == (n \div Pow2(i)) % 2

\* Force a function over 1..n into an explicit tuple.
Tuple(f, n) == SubSeq(f, 1, n)

\* T::from(n) for a u8 n: zero-extension to w bits.
From_u8(w, n) == Tuple([i \in 1..w |-> IF i <= 8 THEN BitOf(n, i - 1) ELSE 0], w)

\* ValueType::to_u8: `self as u8`, the low eight bits.
to_u8(v) ==
    v[1] + 2 * v[2] + 4 * v[3] + 8 * v[4] + 16 * v[5] + 32 * v[6] + 64 * v[7] + 128 * v[8]

\* u8 ^ u8.
XorU8(a, b) == to_u8([i \in 1..8 |-> (BitOf(a, i - 1) + BitOf(b, i - 1)) % 2])

\* BitXor on T.
BitXor(a, b) == Tuple([i \in 1..Len(a) |-> (a[i] + b[i]) % 2], Len(a))

\* ParallelReverse::swap_bits: bit i goes to bit w - 1 - i.
swap_bits(v) == Tuple([i \in 1..Len(v) |-> v[Len(v) + 1 - i]], Len(v))

\* A shift of a w-bit integer by n overflows when n >= w: with overflow
\* checks compiled in (debug builds) the operator panics, without them
\* (release builds) the count is masked to n & (w - 1).
ShiftOverflows(w, n) == n >= w

MaskedCount(w, n) == n % w

\* Shr<u8> on T with the count masked.
WrappingShr(v, n) ==
    LET w == Len(v)
        k == MaskedCount(w, n)
    IN  Tuple([i \in 1..w |-> IF i + k <= w THEN v[i + k] ELSE 0], w)

\* Shl<u8> on T with the count masked.
WrappingShl(v, n) ==
    LET w == Len(v)
        k == MaskedCount(w, n)
    IN  Tuple([i \in 1..w |-> IF i - k >= 1 THEN v[i - k] ELSE 0], w)

\* The value of a register written as bytes, most significant first
\* (<<203, 244, 57, 38>> is 0xCBF43926).
FromBytes(bs) ==
    LET n == Len(bs)
    IN  Tuple([i \in 1..(8 * n) |-> BitOf(bs[n - ((i - 1) \div 8)], (i - 1) % 8)], 8 * n)

\* The bytes of a register, most significant first: the inverse of FromBytes.
ToBytes(v) ==
    LET n == Len(v) \div 8
    IN  Tuple([j \in 1..n |-> to_u8(SubSeq(v, 8 * (n - j) + 1, 8 * (n - j) + 8))], n)

-----------------------------------------------------------------------------
(* primitive/table.rs: fill_table(&mut table, poly, refin).  The file is   *)
(* not part of the sources at hand; the table is built as the design       *)
(* states it: entry i is the register after dividing byte i bit by bit     *)
(* from a zero register, from the low end with the reflected poly when     *)
(* refin, from the high end otherwise.  A table holds each entry as its    *)
(* bytes (ToBytes); Entry reads one back as a register.                    *)

RECURSIVE ReflectedRounds(_, _, _)
ReflectedRounds(r, rpoly, n) ==
    IF n = 0 THEN r
    ELSE ReflectedRounds(IF r[1] = 1 THEN BitXor(WrappingShr(r, 1), rpoly)
                                     ELSE WrappingShr(r, 1),
                         rpoly, n - 1)

RECURSIVE NormalRounds(_, _, _)
NormalRounds(r, poly, n) ==
    IF n = 0 THEN r
    ELSE NormalRounds(IF r[Len(r)] = 1 THEN BitXor(WrappingShl(r, 1), poly)
                                       ELSE WrappingShl(r, 1),
                      poly, n - 1)

fill_table(poly, refin) ==
    LET w == Len(poly)
    IN  [i \in 0..255 |->
            ToBytes(IF refin THEN ReflectedRounds(From_u8(w, i), swap_bits(poly), 8)
                    ELSE NormalRounds(WrappingShl(From_u8(w, i), w - 8), poly, 8))]

\* table[i as usize].
Entry(table, i) == FromBytes(table[i])

-----------------------------------------------------------------------------
(* primitive/spec.rs: CrcTable<T>.                                         *)

\* CrcTable::new filling the table from refout instead of refin.
CrcTable_new_TableFromRefout(poly, init, refin, refout, xorout) ==
    [poly |-> poly, init |-> init, refin |-> refin, refout |-> refout,
     xorout |-> xorout, table |-> fill_table(poly, refout)]

\* CrcTable::new: the five parameters stored as given, and the table
\* filled from poly and refin.
CrcTable_new(poly, init, refin, refout, xorout) ==
    [poly |-> poly, init |-> init, refin |-> refin, refout |-> refout,
     xorout |-> xorout, table |-> fill_table(poly, refin)]

\* What a call that may panic yields.
Ok(v) == [panic |-> FALSE, value |-> v]

Panic == [panic |-> TRUE, value |-> <<>>]

\* `value >> n` or `value << n` panics ("attempt to shift with overflow")
\* when overflow checks are compiled in and n is no count for the type.
ShiftPanics(value, n) == overflow_checks /\ ShiftOverflows(Len(value), n)

\* CrcTable::update shifting the register right in both branches.
CrcTable_update_ShrBoth(self, value, byte) ==
    IF self.refin
    THEN IF ShiftPanics(value, 8) THEN Panic
         ELSE Ok(BitXor(WrappingShr(value, 8),
                        Entry(self.table, XorU8(to_u8(value), byte))))
    ELSE IF ShiftPanics(value, 8) \/ ShiftPanics(value, 24) THEN Panic
         ELSE Ok(BitXor(WrappingShr(value, 8),
                        Entry(self.table, XorU8(to_u8(WrappingShr(value, 24)), byte))))

\* CrcTable::update.  The counts 8 and 24 are literals of the source,
\* whatever the width of T.
CrcTable_update(self, value, byte) ==
    IF self.refin
    THEN IF ShiftPanics(value, 8) THEN Panic
         ELSE Ok(BitXor(WrappingShr(value, 8),
                        Entry(self.table, XorU8(to_u8(value), byte))))
    ELSE IF ShiftPanics(value, 8) \/ ShiftPanics(value, 24) THEN Panic
         ELSE Ok(BitXor(WrappingShl(value, 8),
                        Entry(self.table, XorU8(to_u8(WrappingShr(value, 24)), byte))))

\* CrcTable::finish as the paper words refout: reflect when refout is set.
CrcTable_finish_PaperRefout(self, value) ==
    BitXor(IF self.refout THEN swap_bits(value) ELSE value, self.xorout)

\* CrcTable::finish.
CrcTable_finish(self, value) ==
    BitXor(IF self.refin # self.refout THEN swap_bits(value) ELSE value,
           self.xorout)

\* impl CrcSpec for CrcTable: width() is size_of::<T>() * 8, the others
\* return the fields.
size_of == W \div 8

\* width() giving the size in bytes.
CrcSpec_width_Bytes(self) == size_of

CrcSpec_width(self) == size_of * 8

CrcSpec_poly(self) == self.poly

CrcSpec_init(self) == self.init

CrcSpec_refin(self) == self.refin

CrcSpec_refout(self) == self.refout

CrcSpec_xorout(self) == self.xorout

-----------------------------------------------------------------------------
(* primitive/hasher.rs: CrcTableHasher<T, S>.  A hasher is its register    *)
(* and a spec field S: Borrow<CrcTable<T>>, here the name of one of the    *)
(* CrcTables of the state.                                                 *)

\* self.spec.borrow().
borrow(self) == specs[self.spec]

\* reset() clearing the register instead of loading init.
CrcTableHasher_reset_Zero(self) == [self EXCEPT !.value = From_u8(W, 0)]

\* CrcTableHasher::reset.
CrcTableHasher_reset(self) == [self EXCEPT !.value = CrcSpec_init(borrow(self))]

\* update() starting from init instead of the register.
CrcTableHasher_update_FromInit(self, byte) ==
    LET r == CrcTable_update(borrow(self), CrcSpec_init(borrow(self)), byte)
    IN  IF r.panic THEN [panic |-> TRUE, self |-> self]
        ELSE [panic |-> FALSE, self |-> [self EXCEPT !.value = r.value]]

\* CrcTableHasher::update: the register is assigned only if the call
\* returns.
CrcTableHasher_update(self, byte) ==
    LET r == CrcTable_update(borrow(self), self.value, byte)
    IN  IF r.panic THEN [panic |-> TRUE, self |-> self]
        ELSE [panic |-> FALSE, self |-> [self EXCEPT !.value = r.value]]

\* finish() keeping the checksum in the register.
CrcTableHasher_finish_Destructive(self) ==
    LET c == CrcTable_finish(borrow(self), self.value)
    IN  [self |-> [self EXCEPT !.value = c], result |-> c]

\* CrcTableHasher::finish takes &self: the hasher it leaves and the
\* checksum it returns.
CrcTableHasher_finish(self) ==
    [self |-> self, result |-> CrcTable_finish(borrow(self), self.value)]

\* From<S> for CrcTableHasher: a zero register, then reset().
CrcTableHasher_from(spec_ref) ==
    CrcTableHasher_reset([value |-> From_u8(W, 0), spec |-> spec_ref])

\* update_from_slice walking the slice from its last byte.
RECURSIVE update_from_slice_Backwards(_, _)
update_from_slice_Backwards(self, bytes) ==
    IF bytes = <<>> THEN [panic |-> FALSE, self |-> self]
    ELSE LET r == CrcTableHasher_update(self, bytes[Len(bytes)])
         IN  IF r.panic THEN r
             ELSE update_from_slice_Backwards(r.self, SubSeq(bytes, 1, Len(bytes) - 1))

\* CrcHasher::update_from_slice (the provided method of lib.rs):
\* for &b in bytes { self.update(b) }.
RECURSIVE update_from_slice(_, _)
update_from_slice(self, bytes) ==
    IF bytes = <<>> THEN [panic |-> FALSE, self |-> self]
    ELSE LET r == CrcTableHasher_update(self, Head(bytes))
         IN  IF r.panic THEN r ELSE update_from_slice(r.self, Tail(bytes))

-----------------------------------------------------------------------------
(* The inputs the model draws from.                                        *)

\* The most bytes fed to one hasher between two resets.
MaxLen == 2

\* The register types the crate is built over: u8, u16, u32, u64.
Widths == {8, 16, 32, 64}

\* The bytes fed: ASCII "1" and "2".
Bytes == {49, 50}

Zero(w) == From_u8(w, 0)

Ones(w) == Tuple([i \in 1..w |-> 1], w)

\* CRC-8 0x07, CRC-16 0x1021, CRC-32 0x04C11DB7, CRC-64 0x42F0E1EBA9EA3693.
StdPoly(w) ==
    IF w = 8 THEN FromBytes(<<7>>)
    ELSE IF w = 16 THEN FromBytes(<<16, 33>>)
    ELSE IF w = 32 THEN FromBytes(<<4, 193, 29, 183>>)
    ELSE FromBytes(<<66, 240, 225, 235, 169, 234, 54, 147>>)

\* 0x81, 0x8123, 0x81234567, 0x8123456789ABCDEF: no two bytes alike.
Pattern(w) == FromBytes(SubSeq(<<129, 35, 69, 103, 137, 171, 205, 239>>, 1, w \div 8))

Polys(w) == {StdPoly(w)}

Inits(w) == {Zero(w), Pattern(w)}

Xorouts(w) == {Zero(w), Ones(w)}

\* The arguments of one call of CrcTable::new.
Args(w) ==
    [poly : Polys(w), init : Inits(w), refin : BOOLEAN, refout : BOOLEAN,
     xorout : Xorouts(w)]

\* The byte sequences of length at most n.
RECURSIVE SlicesUpTo(_)
SlicesUpTo(n) ==
    IF n = 0 THEN {<<>>}
    ELSE LET S == SlicesUpTo(n - 1)
         IN  S \cup {Append(s, b) : s \in {t \in S : Len(t) = n - 1}, b \in Bytes}

Slices == SlicesUpTo(MaxLen)

\* The check message of the tests, "123456789".
Message == <<49, 50, 51, 52, 53, 54, 55, 56, 57>>

\* What a call returning () leaves in ret.
NoRet == [op |-> "none", on |-> "-", result |-> <<>>]

-----------------------------------------------------------------------------
(* The state.  specs holds the CrcTables built, by name, and args the      *)
(* arguments each was built from; hashers holds the hashers, by name; ret  *)
(* is what the last call returned.  fed and hist are history variables:    *)
(* fed[h] is the bytes hasher h consumed since it was built or last reset, *)
(* hist is the last call (hist.nth tells a finish() repeated on the same   *)
(* hasher) and the hashers that were reset after consuming bytes.          *)

\* CrcTable::new for every name of a.
Build(a) ==
    [s \in DOMAIN a |->
        CrcTable_new(a[s].poly, a[s].init, a[s].refin, a[s].refout, a[s].xorout)]

\* hashers, given by the name of the CrcTable each borrows, start as
\* CrcTableHasher::from leaves them.
Start(borrows) ==
    /\ hashers = [h \in DOMAIN borrows |-> CrcTableHasher_from(borrows[h])]
    /\ fed = [h \in DOMAIN borrows |-> <<>>]
    /\ hist = [op |-> "new", on |-> "-", arg |-> <<>>, nth |-> 0, reset |-> {}]
    /\ ret = NoRet
    /\ panicked = FALSE

\* The history of a call op(arg) on hasher or spec h.
Track(op, h, arg) ==
    hist' = [op |-> op, on |-> h, arg |-> arg,
             nth |-> IF op = "finish" /\ hist.op = "finish" /\ hist.on = h THEN 2 ELSE 1,
             reset |-> IF op = "reset" /\ fed[h] # <<>> THEN hist.reset \cup {h}
                       ELSE hist.reset]

\* hasher.reset().
Reset(h) ==
    /\ ~panicked
    /\ hashers' = [hashers EXCEPT ![h] = CrcTableHasher_reset(@)]
    /\ fed' = [fed EXCEPT ![h] = <<>>]
    /\ ret' = NoRet
    /\ UNCHANGED <<overflow_checks, W, args, specs, panicked>>

\* hasher.update(byte): a panic ends the run.
Update(h, byte) ==
    /\ ~panicked
    /\ LET r == CrcTableHasher_update(hashers[h], byte)
       IN  /\ hashers' = [hashers EXCEPT ![h] = r.self]
           /\ panicked' = r.panic
           /\ fed' = IF r.panic THEN fed ELSE [fed EXCEPT ![h] = Append(@, byte)]
    /\ ret' = NoRet
    /\ UNCHANGED <<overflow_checks, W, args, specs>>

\* hasher.update_from_slice(bytes).
UpdateFromSlice(h, bytes) ==
    /\ ~panicked
    /\ LET r == update_from_slice(hashers[h], bytes)
       IN  /\ hashers' = [hashers EXCEPT ![h] = r.self]
           /\ panicked' = r.panic
           /\ fed' = IF r.panic THEN fed ELSE [fed EXCEPT ![h] = @ \o bytes]
    /\ ret' = NoRet
    /\ UNCHANGED <<overflow_checks, W, args, specs>>

\* hasher.finish().
Finish(h) ==
    /\ ~panicked
    /\ LET r == CrcTableHasher_finish(hashers[h])
       IN  /\ hashers' = [hashers EXCEPT ![h] = r.self]
           /\ ret' = [op |-> "finish", on |-> h, result |-> r.result]
    /\ UNCHANGED <<overflow_checks, W, args, specs, fed, panicked>>

\* The six accessors of CrcSpec, read off the CrcTable named s.
Accessors(s) ==
    /\ ~panicked
    /\ ret' = [op |-> "accessors", on |-> s,
               result |-> <<CrcSpec_width(specs[s]), CrcSpec_poly(specs[s]),
                            CrcSpec_init(specs[s]), CrcSpec_refin(specs[s]),
                            CrcSpec_refout(specs[s]), CrcSpec_xorout(specs[s])>>]
    /\ UNCHANGED <<overflow_checks, W, args, specs, hashers, fed, panicked>>

-----------------------------------------------------------------------------
(* Spec: one CrcTable of any width and parameters, one hasher, every       *)
(* method, with the history kept.                                          *)

Init ==
    /\ overflow_checks \in BOOLEAN
    /\ W \in Widths
    /\ args \in [{"s"} -> Args(W)]
    /\ specs = Build(args)
    /\ Start([a |-> "s"])

Next ==
    \/ \E h \in DOMAIN hashers : Reset(h) /\ Track("reset", h, <<>>)
    \/ \E h \in DOMAIN hashers, byte \in Bytes :
          /\ Len(fed[h]) < MaxLen
          /\ Update(h, byte) /\ Track("update", h, <<byte>>)
    \/ \E h \in DOMAIN hashers, bytes \in Slices :
          /\ Len(fed[h]) + Len(bytes) <= MaxLen
          /\ UpdateFromSlice(h, bytes) /\ Track("update_from_slice", h, bytes)
    \/ \E h \in DOMAIN hashers : Finish(h) /\ Track("finish", h, <<>>)
    \/ \E s \in DOMAIN specs : Accessors(s) /\ Track("accessors", s, <<>>)

Spec == Init /\ [][Next]_vars

-----------------------------------------------------------------------------
(* What the claims are stated with.                                        *)

\* v << n and v >> n on a register of Len(v) bits, as arithmetic on
\* an integer of that width defines them: bits moved past either end
\* are lost, whatever n.
LogicalShl(v, n) == [i \in 1..Len(v) |-> IF i - n >= 1 THEN v[i - n] ELSE 0]

LogicalShr(v, n) == [i \in 1..Len(v) |-> IF i + n <= Len(v) THEN v[i + n] ELSE 0]

\* Bits W-8..W-1 of a register, as a byte.
high_byte(v) == to_u8(LogicalShr(v, Len(v) - 8))

\* Bit i of the result is bit W-1-i of v.
Reversed(v) == [i \in 1..Len(v) |-> v[Len(v) - (i - 1)]]

Xor(a, b) == [i \in 1..Len(a) |-> IF a[i] = b[i] THEN 0 ELSE 1]

\* The hasher left by calling update(bytes[i]), update(bytes[i + 1]), ...
\* on self, one call after the other.
RECURSIVE UpdateEach(_, _, _)
UpdateEach(self, bytes, i) ==
    IF i > Len(bytes) THEN self
    ELSE UpdateEach(CrcTableHasher_update(self, bytes[i]).self, bytes, i + 1)

\* A hasher newly built over the CrcTable h borrows, then fed bytes byte
\* by byte.
FreshFed(h, bytes) == UpdateEach(CrcTableHasher_from(hashers[h].spec), bytes, 1)

\* The register a hasher run alone over the CrcTable h borrows holds after
\* bytes: init, then CrcTable::update once per byte.
RECURSIVE RegisterAfter(_, _, _, _)
RegisterAfter(table_spec, r, bytes, i) ==
    IF i > Len(bytes) THEN r
    ELSE RegisterAfter(table_spec, CrcTable_update(table_spec, r, bytes[i]).value,
                       bytes, i + 1)

Alone(h, bytes) ==
    RegisterAfter(specs[hashers[h].spec], args[hashers[h].spec].init, bytes, 1)

-----------------------------------------------------------------------------
(* The claims checked under Spec.                                          *)

\* C2: with refin false, update(r, b) is (r << 8) XOR T[high_byte(r) XOR b]
\* for every width, high_byte being bits W-8..W-1 of r.
C2_UpdateUsesHighByte ==
    [][\A h \in DOMAIN hashers :
          (/\ hist'.op = "update" /\ hist'.on = h
           /\ ~panicked'
           /\ ~borrow(hashers[h]).refin)
          => LET r == hashers[h].value
                 b == hist'.arg[1]
             IN  hashers'[h].value =
                    Xor(LogicalShl(r, 8),
                        Entry(borrow(hashers[h]).table, XorU8(high_byte(r), b)))]_vars

\* C3: no call ever ends in a runtime failure.
C3_NoRuntimeFailure == ~panicked

\* C4: finish(r) is r XOR xorout when refin = refout and the bit reversal
\* of r XOR xorout when they differ.
C4_FinishReflectsOnDisagreement ==
    \A h \in DOMAIN hashers :
        (ret.op = "finish" /\ ret.on = h)
        => LET a == args[hashers[h].spec]
               r == hashers[h].value
           IN  ret.result = Xor(IF a.refin # a.refout THEN Reversed(r) ELSE r, a.xorout)

C4_Witness ==
    \E h \in DOMAIN hashers :
        /\ ret.op = "finish" /\ ret.on = h
        /\ args[hashers[h].spec].refin /\ args[hashers[h].spec].refout
        /\ fed[h] # <<>>
        /\ hashers[h].value # swap_bits(hashers[h].value)

\* C5: a finish() step leaves every hasher as it was, a finish() repeated
\* returns what the one before returned, and every register is the one a
\* new hasher gets from the bytes fed alone, finish() calls left out.
C5_FinishLeavesRegister ==
    [][/\ \A h \in DOMAIN hashers :
            (hist'.op = "finish" /\ hist'.on = h)
            => /\ hashers' = hashers
               /\ hist'.nth = 2 => ret'.result = ret.result
       /\ \A h \in DOMAIN hashers : hashers'[h] = FreshFed(h, fed'[h])]_vars

C5_Witness ==
    \E h \in DOMAIN hashers :
        /\ hist.op = "finish" /\ hist.on = h /\ hist.nth = 2
        /\ fed[h] # <<>>
        /\ hashers[h].value # args[hashers[h].spec].init

\* C6: after update_from_slice(bytes) the hasher is the one that update(b)
\* for each b of the bytes consumed, in order, leaves, and finishes alike.
C6_SliceIsLoopOfUpdates ==
    \A h \in DOMAIN hashers :
        (hist.op = "update_from_slice" /\ hist.on = h)
        => /\ hashers[h] = FreshFed(h, fed[h])
           /\ CrcTableHasher_finish(hashers[h]).result =
                 CrcTableHasher_finish(FreshFed(h, fed[h])).result

C6_Witness ==
    \E h \in DOMAIN hashers :
        /\ hist.op = "update_from_slice" /\ hist.on = h
        /\ Len(hist.arg) >= 2 /\ hist.arg[1] # hist.arg[2]
        /\ ~panicked

\* C7: a new hasher and a reset one hold init, a hasher reset after use and
\* then fed S is the hasher a new one fed S is, and reset() leaves the
\* CrcTable as it was built.
C7_ResetIsFresh ==
    [][\A h \in DOMAIN hashers :
          /\ fed[h] = <<>> => hashers[h].value = args[hashers[h].spec].init
          /\ fed'[h] = <<>> => hashers'[h].value = args[hashers[h].spec].init
          /\ h \in hist'.reset
             => /\ hashers'[h] = FreshFed(h, fed'[h])
                /\ CrcTable_finish(borrow(hashers[h]), hashers'[h].value) =
                      CrcTableHasher_finish(FreshFed(h, fed'[h])).result
          /\ (hist'.op = "reset" /\ hist'.on = h)
             => specs' = specs /\ args' = args]_vars

C7_Witness ==
    \E h \in DOMAIN hashers :
        /\ h \in hist.reset
        /\ Len(fed[h]) >= 2
        /\ hashers[h].value # args[hashers[h].spec].init

\* C10: width() is the number of bits of the register type, one of 8,
\* 16, 32 and 64, and the other accessors return what new() was given.
C10_AccessorsVerbatim ==
    \A s \in DOMAIN specs :
        (ret.op = "accessors" /\ ret.on = s)
        => /\ ret.result[1] = Len(args[s].init)
           /\ ret.result[1] \in Widths
           /\ ret.result = <<ret.result[1], args[s].poly, args[s].init, args[s].refin,
                             args[s].refout, args[s].xorout>>

C10_Witness ==
    \E s \in DOMAIN specs :
        /\ ret.op = "accessors" /\ ret.on = s
        /\ args[s].refin # args[s].refout
        /\ args[s].init # args[s].xorout

-----------------------------------------------------------------------------
(* SpecShared: two hashers borrowing one CrcTable, every method in any     *)
(* interleaving, the history of calls not kept.                            *)

InitShared ==
    /\ overflow_checks \in BOOLEAN
    /\ W \in Widths
    /\ args \in [{"s"} -> {x \in Args(W) : x.init = Pattern(W) /\ x.xorout = Ones(W)
                                           /\ x.refout = FALSE}]
    /\ specs = Build(args)
    /\ Start([a |-> "s", b |-> "s"])

NextShared ==
    \/ \E h \in DOMAIN hashers : Reset(h) /\ UNCHANGED hist
    \/ \E h \in DOMAIN hashers, byte \in Bytes :
          /\ Len(fed[h]) < MaxLen
          /\ Update(h, byte) /\ UNCHANGED hist
    \/ \E h \in DOMAIN hashers, bytes \in Slices :
          /\ Len(fed[h]) + Len(bytes) <= MaxLen
          /\ UpdateFromSlice(h, bytes) /\ UNCHANGED hist
    \/ \E h \in DOMAIN hashers : Finish(h) /\ UNCHANGED hist

SpecShared == InitShared /\ [][NextShared]_vars

\* C9: no step on hashers sharing a CrcTable changes the CrcTable, and each
\* hasher's register and checksum are those of a hasher alone with the
\* bytes that hasher was fed.
C9_SharedSpecUntouched ==
    [][/\ specs' = specs
       /\ args' = args
       /\ \A h \in DOMAIN hashers :
            /\ hashers'[h].value = Alone(h, fed'[h])
            /\ hashers'[h].spec = hashers[h].spec
            /\ (ret'.op = "finish" /\ ret'.on = h)
               => ret'.result =
                     CrcTable_finish(specs[hashers[h].spec], Alone(h, fed'[h]))]_vars

C9_Witness ==
    /\ hashers["a"].spec = hashers["b"].spec
    /\ Len(fed["a"]) >= 2 /\ Len(fed["b"]) >= 1
    /\ fed["a"] # fed["b"]
    /\ hashers["a"].value # hashers["b"].value
    /\ ret.op = "finish" /\ ret.on = "b"

-----------------------------------------------------------------------------
(* SpecPurity: two CrcTables built from one poly and refin and differing   *)
(* in init, refout or xorout, a hasher over each.                          *)

\* The arguments x with some of init, refout and xorout changed: one of
\* them, or all three.
Variants(w, x) ==
    {y \in Args(w) :
        /\ y.poly = x.poly /\ y.refin = x.refin
        /\ LET d == {f \in {"init", "refout", "xorout"} : y[f] # x[f]}
           IN  Cardinality(d) \in {1, 3}}

InitPurity ==
    /\ overflow_checks \in BOOLEAN
    /\ W \in Widths
    /\ \E x \in {z \in Args(W) : z.init = Zero(W) /\ ~z.refout /\ z.xorout = Zero(W)} :
          \E y \in Variants(W, x) : args = [s |-> x, t |-> y]
    /\ specs = Build(args)
    /\ Start([a |-> "s", b |-> "t"])

NextPurity ==
    \/ \E h \in DOMAIN hashers : Reset(h) /\ UNCHANGED hist
    \/ \E h \in DOMAIN hashers, byte \in Bytes :
          /\ Len(fed[h]) < MaxLen
          /\ Update(h, byte) /\ UNCHANGED hist

SpecPurity == InitPurity /\ [][NextPurity]_vars

\* C8: CrcTables built from the same poly and refin give the same
\* update(r, byte), for r = 0 and every byte and for the registers reached,
\* and hashers over them that start from the same init and are fed the same
\* bytes hold the same register.
C8_TablePurity ==
    \A s \in DOMAIN specs, t \in DOMAIN specs :
        (args[s].poly = args[t].poly /\ args[s].refin = args[t].refin)
        => /\ \A h \in DOMAIN hashers, b \in Bytes :
                 CrcTable_update(specs[s], hashers[h].value, b) =
                    CrcTable_update(specs[t], hashers[h].value, b)
           /\ (\A h \in DOMAIN hashers : fed[h] = <<>>)
              => \A b \in 0..255 :
                    CrcTable_update(specs[s], Zero(W), b) =
                       CrcTable_update(specs[t], Zero(W), b)
           /\ \A g \in DOMAIN hashers, h \in DOMAIN hashers :
                 (/\ hashers[g].spec = s /\ hashers[h].spec = t
                  /\ args[s].init = args[t].init
                  /\ fed[g] = fed[h])
                 => hashers[g].value = hashers[h].value

C8_Witness ==
    /\ args["s"].xorout # args["t"].xorout
    /\ args["s"].init = args["t"].init
    /\ Len(fed["a"]) >= 2 /\ fed["a"] = fed["b"]
    /\ hashers["a"].value # args["s"].init
    /\ ~panicked

-----------------------------------------------------------------------------
(* SpecCheck: the tests of hasher.rs.  A u32 CrcTable with the CRC-32 or   *)
(* the POSIX cksum parameters, and hashers fed "123456789" byte by byte.   *)

Crc32Args ==
    [poly |-> FromBytes(<<4, 193, 29, 183>>), init |-> Ones(32), refin |-> TRUE,
     refout |-> TRUE, xorout |-> Ones(32)]

PosixArgs ==
    [poly |-> FromBytes(<<4, 193, 29, 183>>), init |-> Zero(32), refin |-> FALSE,
     refout |-> FALSE, xorout |-> Ones(32)]

InitCheck ==
    /\ overflow_checks \in BOOLEAN
    /\ W = 32
    /\ args \in [{"s"} -> {Crc32Args, PosixArgs}]
    /\ specs = Build(args)
    /\ Start([a |-> "s", b |-> "s"])

\* The feed helper of the tests, one iteration: update(0x30 + i).
Feed(h) ==
    /\ Len(fed[h]) < Len(Message)
    /\ Update(h, Message[Len(fed[h]) + 1])
    /\ UNCHANGED hist

NextCheck ==
    \/ \E h \in DOMAIN hashers : Feed(h)
    \/ \E h \in DOMAIN hashers : Finish(h) /\ UNCHANGED hist

SpecCheck == InitCheck /\ [][NextCheck]_vars

\* C1: "123456789" fed byte by byte to a new u32 hasher finishes as
\* 0xCBF43926 under the CRC-32 parameters and as 0x765E7680 under the POSIX
\* ones.
C1_CheckValues ==
    \A h \in DOMAIN hashers :
        (ret.op = "finish" /\ ret.on = h /\ fed[h] = Message)
        => /\ args[hashers[h].spec] = Crc32Args
              => ret.result = FromBytes(<<203, 244, 57, 38>>)
           /\ args[hashers[h].spec] = PosixArgs
              => ret.result = FromBytes(<<118, 94, 118, 128>>)

C1_Witness ==
    /\ ret.op = "finish" /\ ret.on = "a" /\ fed["a"] = Message
    /\ args["s"] = PosixArgs
    /\ ret.result = FromBytes(<<118, 94, 118, 128>>)

====
